---- MODULE Spec2Model ----
(***************************************************************************)
(* Model of the error-classification layer of the Next15 clean-architecture *)
(* demo: src/common/errorHandler.ts (ApplicationError, handleError,         *)
(* createError) and the use-case that drives it (GetUsersUseCase.execute).   *)
(*                                                                           *)
(* JavaScript values are records tagged by "class".  Strings are TLA+        *)
(* strings and the string operations of the code (includes, toLowerCase,     *)
(* join, template literals, String()) are computed character by character.   *)
(***************************************************************************)
EXTENDS Integers, Sequences, FiniteSets, TLC

VARIABLES
    now,        \* the wall clock read by `new Date()`
    uuidCount,  \* how many identifiers crypto.randomUUID() has handed out
    call,       \* the call of handleError / createError.* whose result the caller holds
    exec        \* the GetUsersUseCase.execute invocation in progress

vars == <<now, uuidCount, call, exec>>

----------------------------------------------------------------------------
(* Bounds of the model.                                                     *)

MaxNow == 1
MaxUuid == 4

----------------------------------------------------------------------------
(* JavaScript strings.                                                      *)

LowerChar(c) ==
    CASE c = "A" -> "a" [] c = "B" -> "b" [] c = "C" -> "c" [] c = "D" -> "d"
      [] c = "E" -> "e" [] c = "F" -> "f" [] c = "G" -> "g" [] c = "H" -> "h"
      [] c = "I" -> "i" [] c = "J" -> "j" [] c = "K" -> "k" [] c = "L" -> "l"
      [] c = "M" -> "m" [] c = "N" -> "n" [] c = "O" -> "o" [] c = "P" -> "p"
      [] c = "Q" -> "q" [] c = "R" -> "r" [] c = "S" -> "s" [] c = "T" -> "t"
      [] c = "U" -> "u" [] c = "V" -> "v" [] c = "W" -> "w" [] c = "X" -> "x"
      [] c = "Y" -> "y" [] c = "Z" -> "z" [] OTHER -> c

\* String.prototype.toLowerCase
RECURSIVE ToLowerCase(_)
ToLowerCase(s) ==
    IF Len(s) = 0 THEN ""
    ELSE LowerChar(SubSeq(s, 1, 1)) \o ToLowerCase(SubSeq(s, 2, Len(s)))

\* String.prototype.includes: an exact, case-sensitive substring search
Includes(s, sub) ==
    \E i \in 1..(Len(s) - Len(sub) + 1) : SubSeq(s, i, i + Len(sub) - 1) = sub

\* Array.prototype.join over an array of strings
RECURSIVE Join(_, _)
Join(parts, sep) ==
    IF Len(parts) = 0 THEN ""
    ELSE IF Len(parts) = 1 THEN parts[1]
    ELSE parts[1] \o sep \o Join(Tail(parts), sep)

Digit(d) == SubSeq("0123456789", d + 1, d + 1)

\* Number.prototype.toString of a natural number
RECURSIVE NatToString(_)
NatToString(n) ==
    IF n < 10 THEN Digit(n) ELSE NatToString(n \div 10) \o Digit(n % 10)

----------------------------------------------------------------------------
(* JavaScript values.                                                       *)

Undefined == [class |-> "undefined"]
Null == [class |-> "null"]
Str(s) == [class |-> "string", value |-> s]
Num(n) == [class |-> "number", value |-> n]
\* {} : an object literal, which inherits Object.prototype.toString
PlainObject == [class |-> "Object"]
\* Object.create(null) : an object with no toString and no valueOf
NullProtoObject == [class |-> "NullPrototypeObject"]

\* new Error(message), new TypeError(message), a DOMException (AbortSignal
\* timeouts reject with one).  `transport` records what raised the value:
\* TRUE when the transport call itself could not complete.  The code cannot
\* read it; it only sees the class and the message.
NewError(message, transport) ==
    [class |-> "Error", message |-> message, transport |-> transport]
NewTypeError(message, transport) ==
    [class |-> "TypeError", message |-> message, transport |-> transport]
NewDOMException(message, transport) ==
    [class |-> "DOMException", message |-> message, transport |-> transport]
\* what JSON.parse and response.json() raise for a text that is not JSON
NewSyntaxError(message) ==
    [class |-> "SyntaxError", message |-> message, transport |-> FALSE]

\* a z.ZodError: an ordered list of issues, each with a path and a message
Issue(path, message) == [path |-> path, message |-> message]
NewZodError(issues) == [class |-> "ZodError", issues |-> issues]

ErrorType ==
    {"VALIDATION_ERROR", "NETWORK_ERROR", "DATABASE_ERROR",
     "AUTHENTICATION_ERROR", "AUTHORIZATION_ERROR", "NOT_FOUND_ERROR",
     "CONFLICT_ERROR", "RATE_LIMIT_ERROR", "UNKNOWN_ERROR"}

\* `x instanceof ApplicationError`, `x instanceof z.ZodError`,
\* `x instanceof TypeError`, `x instanceof Error`
InstanceOfApplicationError(x) == x.class = "ApplicationError"
InstanceOfZodError(x) == x.class = "ZodError"
InstanceOfTypeError(x) == x.class = "TypeError"
InstanceOfError(x) ==
    x.class \in {"Error", "TypeError", "DOMException", "SyntaxError", "ZodError",
                 "ApplicationError"}

\* The result of evaluating a call: a returned value or a thrown one.
Return(v) == [kind |-> "return", value |-> v]
Throw(e) == [kind |-> "throw", value |-> e]

\* String(x) for the values that are not Error instances.  An object with no
\* toString/valueOf makes String() throw a TypeError.
ToStringCompletion(x) ==
    CASE x.class = "null" -> Return("null")
      [] x.class = "undefined" -> Return("undefined")
      [] x.class = "string" -> Return(x.value)
      [] x.class = "number" -> Return(NatToString(x.value))
      [] x.class = "Object" -> Return("[object Object]")
      [] x.class = "NullPrototypeObject" ->
            Throw(NewTypeError("Cannot convert object to primitive value", FALSE))

\* the truthiness of an optional string argument: undefined and "" are falsy
Truthy(x) == x.class = "string" /\ x.value # ""

----------------------------------------------------------------------------
(* crypto.randomUUID() and new Date().toISOString().                        *)

UuidOf(n) == "uuid-" \o NatToString(n)

\* the identifier the next call of crypto.randomUUID() returns
RandomUUID == UuidOf(uuidCount)

----------------------------------------------------------------------------
(* class ApplicationError                                                   *)

\* a variant of the constructor that always draws a fresh traceId
MutNewApplicationErrorFreshTraceId(type, message, code, details, traceId) ==
    [class |-> "ApplicationError", type |-> type, message |-> message,
     code |-> code, details |-> details, timestamp |-> now,
     traceId |-> RandomUUID]

\* constructor(type, message, code?, details?, traceId?)
NewApplicationError(type, message, code, details, traceId) ==
    [class |-> "ApplicationError",
     type |-> type,
     message |-> message,
     code |-> code,
     details |-> details,
     timestamp |-> now,
     traceId |-> IF Truthy(traceId) THEN traceId.value ELSE RandomUUID]

----------------------------------------------------------------------------
(* fromError(zodError).message of zod-validation-error: the prefix          *)
(* "Validation error", then every issue as `<message> at "<path>"` (the      *)
(* message alone when the path is empty), joined by "; ".                    *)

IssueText(issue) ==
    IF Len(issue.path) = 0 THEN issue.message
    ELSE issue.message \o " at \"" \o Join(issue.path, ".") \o "\""

RECURSIVE IssueTexts(_)
IssueTexts(issues) ==
    IF Len(issues) = 0 THEN <<>>
    ELSE <<IssueText(Head(issues))>> \o IssueTexts(Tail(issues))

FromError(zodError) ==
    "Validation error: " \o Join(IssueTexts(zodError.issues), "; ")

----------------------------------------------------------------------------
(* handleError(error, context?, traceId?)                                   *)

\* the `details` literal of the Error branches and of the last branch
OriginalErrorDetails(originalError, context) ==
    [originalError |-> originalError, context |-> context]

\* `error instanceof TypeError && error.message.includes("fetch")`
IsFetchTypeError(error) ==
    InstanceOfTypeError(error) /\ Includes(error.message, "fetch")

\* a variant that tests the cue on the message as written
MutMessageHasCueCaseSensitive(error, cue) == Includes(error.message, cue)

\* `error.message.toLowerCase().includes(cue)`
MessageHasCue(error, cue) == Includes(ToLowerCase(error.message), cue)

\* a variant with the details of handleZodError, which carry no context
MutHandleZodBranchNoContext(error, context, traceId) ==
    Return(NewApplicationError("VALIDATION_ERROR", FromError(error),
        "ZOD_VALIDATION_FAILED",
        [issues |-> error.issues,
         path |-> Join([i \in 1..Len(error.issues) |->
                          Join(error.issues[i].path, ".")], ", "),
         invalidFields |-> Len(error.issues)],
        traceId))

\* lines 96-110: the ZodError branch
HandleZodBranch(error, context, traceId) ==
    Return(NewApplicationError("VALIDATION_ERROR", FromError(error),
        "ZOD_VALIDATION_FAILED",
        [issues |-> error.issues, context |-> context,
         invalidFields |-> Len(error.issues)],
        traceId))

\* a variant whose last branch replaces the message by a fixed one
MutHandleGenericErrorFixedMessage(error, context, traceId) ==
    IF MessageHasCue(error, "unauthorized") THEN
        Return(NewApplicationError("AUTHENTICATION_ERROR", "Authentication failed",
            "UNAUTHORIZED", OriginalErrorDetails(error.message, context), traceId))
    ELSE IF MessageHasCue(error, "forbidden") THEN
        Return(NewApplicationError("AUTHORIZATION_ERROR", "Access denied",
            "FORBIDDEN", OriginalErrorDetails(error.message, context), traceId))
    ELSE IF MessageHasCue(error, "not found") THEN
        Return(NewApplicationError("NOT_FOUND_ERROR", "Resource not found",
            "NOT_FOUND", OriginalErrorDetails(error.message, context), traceId))
    ELSE
        Return(NewApplicationError("UNKNOWN_ERROR", "An unknown error occurred",
            "GENERIC_ERROR", OriginalErrorDetails(error.message, context), traceId))

\* a variant that tests "not found" before "forbidden"
MutHandleGenericErrorCueOrder(error, context, traceId) ==
    IF MessageHasCue(error, "unauthorized") THEN
        Return(NewApplicationError("AUTHENTICATION_ERROR", "Authentication failed",
            "UNAUTHORIZED", OriginalErrorDetails(error.message, context), traceId))
    ELSE IF MessageHasCue(error, "not found") THEN
        Return(NewApplicationError("NOT_FOUND_ERROR", "Resource not found",
            "NOT_FOUND", OriginalErrorDetails(error.message, context), traceId))
    ELSE IF MessageHasCue(error, "forbidden") THEN
        Return(NewApplicationError("AUTHORIZATION_ERROR", "Access denied",
            "FORBIDDEN", OriginalErrorDetails(error.message, context), traceId))
    ELSE
        Return(NewApplicationError("UNKNOWN_ERROR", error.message,
            "GENERIC_ERROR", OriginalErrorDetails(error.message, context), traceId))

\* lines 123-163: the generic Error branch, its cues tested in source order
HandleGenericError(error, context, traceId) ==
    IF MessageHasCue(error, "unauthorized") THEN
        Return(NewApplicationError("AUTHENTICATION_ERROR", "Authentication failed",
            "UNAUTHORIZED", OriginalErrorDetails(error.message, context), traceId))
    ELSE IF MessageHasCue(error, "forbidden") THEN
        Return(NewApplicationError("AUTHORIZATION_ERROR", "Access denied",
            "FORBIDDEN", OriginalErrorDetails(error.message, context), traceId))
    ELSE IF MessageHasCue(error, "not found") THEN
        Return(NewApplicationError("NOT_FOUND_ERROR", "Resource not found",
            "NOT_FOUND", OriginalErrorDetails(error.message, context), traceId))
    ELSE
        Return(NewApplicationError("UNKNOWN_ERROR", error.message,
            "GENERIC_ERROR", OriginalErrorDetails(error.message, context), traceId))

\* lines 165-172: values that are not Error instances; String(error) is
\* evaluated while the details literal is built and may throw
HandleNonError(error, context, traceId) ==
    LET s == ToStringCompletion(error) IN
    IF s.kind = "throw" THEN s
    ELSE Return(NewApplicationError("UNKNOWN_ERROR", "An unknown error occurred",
            "UNKNOWN_ERROR", OriginalErrorDetails(s.value, context), traceId))

\* a variant that builds a new error from an ApplicationError it is given
MutHandleErrorRewraps(error, context, traceId) ==
    IF InstanceOfApplicationError(error) THEN
        Return(NewApplicationError(error.type, error.message, error.code,
            error.details, traceId))
    ELSE IF InstanceOfZodError(error) THEN HandleZodBranch(error, context, traceId)
    ELSE IF IsFetchTypeError(error) THEN
        Return(NewApplicationError("NETWORK_ERROR", "Network request failed",
            "NETWORK_REQUEST_FAILED", OriginalErrorDetails(error.message, context),
            traceId))
    ELSE IF InstanceOfError(error) THEN HandleGenericError(error, context, traceId)
    ELSE HandleNonError(error, context, traceId)

handleError(error, context, traceId) ==
    IF InstanceOfApplicationError(error) THEN Return(error)
    ELSE IF InstanceOfZodError(error) THEN HandleZodBranch(error, context, traceId)
    ELSE IF IsFetchTypeError(error) THEN
        Return(NewApplicationError("NETWORK_ERROR", "Network request failed",
            "NETWORK_REQUEST_FAILED", OriginalErrorDetails(error.message, context),
            traceId))
    ELSE IF InstanceOfError(error) THEN HandleGenericError(error, context, traceId)
    ELSE HandleNonError(error, context, traceId)

\* TRUE when evaluating handleError(error, _, traceId) calls crypto.randomUUID():
\* an ApplicationError is constructed with a falsy traceId
HandleErrorDrawsUuid(error, traceId) ==
    /\ ~InstanceOfApplicationError(error)
    /\ ~Truthy(traceId)
    /\ (InstanceOfError(error) \/ ToStringCompletion(error).kind = "return")

----------------------------------------------------------------------------
(* createError: one constructor per kind.  A default parameter value is     *)
(* used when the argument is undefined.                                      *)

DefaultTo(arg, default) == IF arg.class = "undefined" THEN default ELSE arg.value

createError_validation(message, details, traceId) ==
    NewApplicationError("VALIDATION_ERROR", message, "VALIDATION_ERROR", details, traceId)

\* a variant that uses the resource name alone as the message
MutCreateErrorNotFoundBareMessage(resource, traceId) ==
    NewApplicationError("NOT_FOUND_ERROR", resource, "NOT_FOUND",
        [resource |-> resource], traceId)

createError_notFound(resource, traceId) ==
    NewApplicationError("NOT_FOUND_ERROR", resource \o " not found", "NOT_FOUND",
        [resource |-> resource], traceId)

createError_unauthorized(message, traceId) ==
    NewApplicationError("AUTHENTICATION_ERROR",
        DefaultTo(message, "Authentication required"), "UNAUTHORIZED", Undefined, traceId)

createError_forbidden(message, traceId) ==
    NewApplicationError("AUTHORIZATION_ERROR",
        DefaultTo(message, "Access denied"), "FORBIDDEN", Undefined, traceId)

createError_conflict(message, details, traceId) ==
    NewApplicationError("CONFLICT_ERROR", message, "CONFLICT", details, traceId)

createError_database(message, details, traceId) ==
    NewApplicationError("DATABASE_ERROR", message, "DATABASE_ERROR", details, traceId)

createError_network(message, details, traceId) ==
    NewApplicationError("NETWORK_ERROR",
        DefaultTo(message, "Network error occurred"), "NETWORK_ERROR", details, traceId)

createError_rateLimit(message, traceId) ==
    NewApplicationError("RATE_LIMIT_ERROR",
        DefaultTo(message, "Rate limit exceeded"), "RATE_LIMIT_EXCEEDED", Undefined, traceId)

Factories ==
    {"validation", "notFound", "unauthorized", "forbidden", "conflict",
     "database", "network", "rateLimit"}

\* createError[factory](...) with the arguments each constructor takes:
\* `text` is the message argument (the resource name for notFound), which
\* only the constructors with a default message accept as undefined
createError(factory, text, details, traceId) ==
    CASE factory = "validation" -> createError_validation(text.value, details, traceId)
      [] factory = "notFound" -> createError_notFound(text.value, traceId)
      [] factory = "unauthorized" -> createError_unauthorized(text, traceId)
      [] factory = "forbidden" -> createError_forbidden(text, traceId)
      [] factory = "conflict" -> createError_conflict(text.value, details, traceId)
      [] factory = "database" -> createError_database(text.value, details, traceId)
      [] factory = "network" -> createError_network(text, details, traceId)
      [] factory = "rateLimit" -> createError_rateLimit(text, traceId)

----------------------------------------------------------------------------
(* The user schema of the use-cases: z.object({ id: z.string(),             *)
(* name: z.string(), email: z.email({ message: "INVALID_EMAIL_FORMAT" }) }). *)

\* position of the single "@" of s, or 0 when s has none or several
AtPosition(s) ==
    LET ats == {i \in 1..Len(s) : SubSeq(s, i, i) = "@"} IN
    IF Cardinality(ats) = 1 THEN CHOOSE i \in ats : TRUE ELSE 0

\* z.email(): a non-empty local part, one "@", a dotted domain whose last
\* label has at least two characters, no blank anywhere
IsEmail(s) ==
    LET at == AtPosition(s) IN
    /\ at > 1
    /\ ~Includes(s, " ")
    /\ \E dot \in (at + 2)..(Len(s) - 2) :
          /\ SubSeq(s, dot, dot) = "."
          /\ ~Includes(SubSeq(s, dot + 1, Len(s)), ".")

StringIssues(field, value) ==
    IF value.class = "string" THEN <<>>
    ELSE <<Issue(<<field>>, "Invalid input: expected string, received " \o value.class)>>

EmailIssues(field, value) ==
    IF value.class = "string" /\ IsEmail(value.value) THEN <<>>
    ELSE <<Issue(<<field>>, "INVALID_EMAIL_FORMAT")>>

\* UserSchema.parse(user): the user, or a ZodError listing every failing
\* field in schema order
UserSchemaParse(user) ==
    LET issues == StringIssues("id", user.id) \o StringIssues("name", user.name)
                    \o EmailIssues("email", user.email) IN
    IF Len(issues) = 0 THEN Return(user) ELSE Throw(NewZodError(issues))

\* a variant that leaves out the users that fail the schema
RECURSIVE MutMapParseSkipsInvalid(_)
MutMapParseSkipsInvalid(users) ==
    IF Len(users) = 0 THEN Return(<<>>)
    ELSE LET first == UserSchemaParse(Head(users))
             rest == MutMapParseSkipsInvalid(Tail(users))
         IN  IF first.kind = "throw" THEN rest
             ELSE Return(<<first.value>> \o rest.value)

\* users.map((user) => UserSchema.parse(user)): stops at the first throw
RECURSIVE MapParse(_)
MapParse(users) ==
    IF Len(users) = 0 THEN Return(<<>>)
    ELSE LET first == UserSchemaParse(Head(users)) IN
         IF first.kind = "throw" THEN first
         ELSE LET rest == MapParse(Tail(users)) IN
              IF rest.kind = "throw" THEN rest
              ELSE Return(<<first.value>> \o rest.value)

----------------------------------------------------------------------------
(* GetUsersUseCase.execute()                                                *)

\* logError(error, context): the hook is called; it changes nothing else
LogCall(error, context) == [error |-> error, context |-> context]

\* the catch block: classify, log, rethrow.  A throw of handleError itself
\* leaves the block before logError runs.
ExecuteCatch(error, traceId) ==
    LET appError == handleError(error, Str("GetUserUseCase.execute"), Str(traceId)) IN
    IF appError.kind = "throw"
    THEN [completion |-> appError, logged |-> <<>>]
    ELSE [completion |-> Throw(appError.value),
          logged |-> <<LogCall(appError.value, "Failed to get users")>>]

\* the try block once userRepository.getAll() has settled with `settled`
ExecuteBody(settled, traceId) ==
    IF settled.kind = "throw" THEN ExecuteCatch(settled.value, traceId)
    ELSE LET parsed == MapParse(settled.value) IN
         IF parsed.kind = "throw" THEN ExecuteCatch(parsed.value, traceId)
         ELSE [completion |-> parsed, logged |-> <<>>]

\* ApplicationError.toJSON() (errorHandler.ts lines 56-65): a new object with
\* six fields of the error, which is left as it is
toJSON(error) ==
    [type |-> error.type, message |-> error.message, code |-> error.code,
     details |-> error.details, timestamp |-> error.timestamp,
     traceId |-> error.traceId]

----------------------------------------------------------------------------
(* The user-facing policy: isUserFacingError, getUserFriendlyMessage        *)
(* (errorHandler.ts) and getStatusCode (errorHandler.examples.ts).           *)

\* a variant that also shows network errors to the user
MutIsUserFacingErrorWithNetwork(error) ==
    error.type \in {"VALIDATION_ERROR", "NOT_FOUND_ERROR", "AUTHENTICATION_ERROR",
                    "AUTHORIZATION_ERROR", "CONFLICT_ERROR", "RATE_LIMIT_ERROR",
                    "NETWORK_ERROR"}

isUserFacingError(error) ==
    error.type \in {"VALIDATION_ERROR", "NOT_FOUND_ERROR", "AUTHENTICATION_ERROR",
                    "AUTHORIZATION_ERROR", "CONFLICT_ERROR", "RATE_LIMIT_ERROR"}

\* a variant whose default case returns the error's own message
MutGetUserFriendlyMessageLeaks(error) ==
    CASE error.type = "VALIDATION_ERROR" -> "Please check your input data and try again."
      [] error.type = "NOT_FOUND_ERROR" -> "The requested resource was not found."
      [] error.type = "AUTHENTICATION_ERROR" -> "Please log in to continue."
      [] error.type = "AUTHORIZATION_ERROR" ->
            "You don't have permission to perform this action."
      [] error.type = "NETWORK_ERROR" ->
            "Network error. Please check your connection and try again."
      [] error.type = "RATE_LIMIT_ERROR" -> "Too many requests. Please wait and try again."
      [] error.type = "CONFLICT_ERROR" ->
            "There was a conflict with your request. Please try again."
      [] error.type = "DATABASE_ERROR" -> "A database error occurred. Please try again later."
      [] OTHER -> error.message

getUserFriendlyMessage(error) ==
    CASE error.type = "VALIDATION_ERROR" -> "Please check your input data and try again."
      [] error.type = "NOT_FOUND_ERROR" -> "The requested resource was not found."
      [] error.type = "AUTHENTICATION_ERROR" -> "Please log in to continue."
      [] error.type = "AUTHORIZATION_ERROR" ->
            "You don't have permission to perform this action."
      [] error.type = "NETWORK_ERROR" ->
            "Network error. Please check your connection and try again."
      [] error.type = "RATE_LIMIT_ERROR" -> "Too many requests. Please wait and try again."
      [] error.type = "CONFLICT_ERROR" ->
            "There was a conflict with your request. Please try again."
      [] error.type = "DATABASE_ERROR" -> "A database error occurred. Please try again later."
      [] OTHER -> "An unexpected error occurred. Please try again later."

\* a variant that answers 400 for a conflict
MutGetStatusCodeConflict(errorType) ==
    CASE errorType \in {"VALIDATION_ERROR", "CONFLICT_ERROR"} -> 400
      [] errorType = "AUTHENTICATION_ERROR" -> 401
      [] errorType = "AUTHORIZATION_ERROR" -> 403
      [] errorType = "NOT_FOUND_ERROR" -> 404
      [] errorType = "RATE_LIMIT_ERROR" -> 429
      [] OTHER -> 500

getStatusCode(errorType) ==
    CASE errorType = "VALIDATION_ERROR" -> 400
      [] errorType = "AUTHENTICATION_ERROR" -> 401
      [] errorType = "AUTHORIZATION_ERROR" -> 403
      [] errorType = "NOT_FOUND_ERROR" -> 404
      [] errorType = "CONFLICT_ERROR" -> 409
      [] errorType = "RATE_LIMIT_ERROR" -> 429
      [] OTHER -> 500

----------------------------------------------------------------------------
(* apiRouteExample (errorHandler.examples.ts): the API boundary.            *)

\* Response.json(body, { status })
ResponseJson(body, status) == [body |-> body, status |-> status]

\* a variant that also sends the code of an internal error
MutApiRouteResponseSendsCode(appError) ==
    IF isUserFacingError(appError) THEN
        ResponseJson([error |-> [message |-> getUserFriendlyMessage(appError),
                                 code |-> appError.code,
                                 traceId |-> appError.traceId]],
                     getStatusCode(appError.type))
    ELSE
        ResponseJson([error |-> [message |-> "Internal server error",
                                 code |-> appError.code,
                                 traceId |-> appError.traceId]], 500)

\* lines 28-51: what the route answers for a classified error
ApiRouteResponse(appError) ==
    IF isUserFacingError(appError) THEN
        ResponseJson([error |-> [message |-> getUserFriendlyMessage(appError),
                                 code |-> appError.code,
                                 traceId |-> appError.traceId]],
                     getStatusCode(appError.type))
    ELSE
        ResponseJson([error |-> [message |-> "Internal server error",
                                 traceId |-> appError.traceId]], 500)

\* lines 24-52: the catch block: classify, log, answer.  A throw of
\* handleError leaves the block at once.
ApiRouteCatch(error) ==
    LET appError == handleError(error, Str("API Route Handler"), Undefined) IN
    IF appError.kind = "throw"
    THEN [appError |-> appError, logged |-> <<>>, completion |-> appError]
    ELSE [appError |-> appError,
          logged |-> <<LogCall(appError.value, Undefined)>>,
          completion |-> Return(ApiRouteResponse(appError.value))]

----------------------------------------------------------------------------
(* class UserApi (adapters): the repository over fetch.                     *)

\* line 7: `const traceId = crypto.randomUUID()`, evaluated once, when the
\* module is loaded: the first identifier the process draws
UserApiTraceId == UuidOf(0)

\* JSON.stringify of a string without characters to escape, and of a path;
\* an array index in a path is a number, written without quotes
JsonString(str) == "\"" \o str \o "\""
IsIndex(key) == \A i \in 1..Len(key) : Includes("0123456789", SubSeq(key, i, i))
JsonKey(key) == IF IsIndex(key) THEN key ELSE JsonString(key)
JsonPath(path) == "[" \o Join([i \in 1..Len(path) |-> JsonKey(path[i])], ",") \o "]"

\* ZodError.message: the JSON text of the issues (of the fields kept here)
IssueJson(issue) ==
    "{\"path\":" \o JsonPath(issue.path)
        \o ",\"message\":" \o JsonString(issue.message) \o "}"
ZodErrorMessage(error) ==
    "[" \o Join([i \in 1..Len(error.issues) |-> IssueJson(error.issues[i])], ",") \o "]"

\* error.message of an Error instance
MessageOf(error) ==
    IF InstanceOfZodError(error) THEN ZodErrorMessage(error) ELSE error.message

\* calling a member that the createError object does not have
NotAFunction(member) ==
    NewTypeError("createError." \o member \o " is not a function", FALSE)

\* lines 11-15: the issues of the element at `index` of data.users, in schema
\* order, each under the path [index, field]
ApiUserIssues(index, user) ==
    LET at == NatToString(index) IN
    (IF user.id.class = "number" THEN <<>>
     ELSE <<Issue(<<at, "id">>,
                  "Invalid input: expected number, received " \o user.id.class)>>)
    \o (IF user.firstName.class = "string" THEN <<>>
        ELSE <<Issue(<<at, "firstName">>,
                     "Invalid input: expected string, received "
                        \o user.firstName.class)>>)
    \o (IF user.email.class = "string" /\ IsEmail(user.email.value) THEN <<>>
        ELSE <<Issue(<<at, "email">>, "INVALID_EMAIL_FORMAT")>>)

\* the issues of the elements from position `from` on, in array order
RECURSIVE ApiUsersIssues(_, _)
ApiUsersIssues(users, from) ==
    IF from > Len(users) THEN <<>>
    ELSE ApiUserIssues(from - 1, users[from]) \o ApiUsersIssues(users, from + 1)

\* lines 9-23: UserApiSchema.parse(data.users) and its transforms
UserApiSchemaParse(data) ==
    IF "users" \notin DOMAIN data
    THEN Throw(NewZodError(
            <<Issue(<<>>, "Invalid input: expected array, received undefined")>>))
    ELSE IF Len(ApiUsersIssues(data.users, 1)) > 0
    THEN Throw(NewZodError(ApiUsersIssues(data.users, 1)))
    ELSE Return([i \in 1..Len(data.users) |->
                    [id |-> Str(NatToString(data.users[i].id.value)),
                     name |-> data.users[i].firstName,
                     email |-> data.users[i].email]])

\* line 40: `await response.json()`: the parsed body, or a SyntaxError
ResponseJsonBody(outcome) ==
    IF "data" \in DOMAIN outcome THEN Return(outcome.data)
    ELSE Throw(NewSyntaxError("Unexpected token '<', \"<html><bod\"... is not valid JSON"))

\* lines 42-51 and 74-83: the catch block of both methods
UserApiCatch(error, message) ==
    Throw(createError_network(Str(message),
            [error |-> IF InstanceOfError(error) THEN MessageOf(error)
                       ELSE "Unknown error",
             traceId |-> UserApiTraceId],
            Str(UserApiTraceId)))

\* what the try block of a method throws for an outcome of fetch, if anything
UserApiTryThrows(outcome) ==
    \/ outcome.kind = "reject"
    \/ ~outcome.ok
    \/ ResponseJsonBody(outcome).kind = "throw"
    \/ UserApiSchemaParse(outcome.data).kind = "throw"
UserApiTryThrown(outcome, member) ==
    IF outcome.kind = "reject" THEN outcome.error
    ELSE IF ~outcome.ok THEN NotAFunction(member)
    ELSE IF ResponseJsonBody(outcome).kind = "throw" THEN ResponseJsonBody(outcome).value
    ELSE UserApiSchemaParse(outcome.data).value

\* a variant that lets a schema failure of the remote data out as a
\* validation error
MutUserApiGetAllValidation(outcome) ==
    IF ~UserApiTryThrows(outcome) THEN UserApiSchemaParse(outcome.data)
    ELSE IF InstanceOfZodError(UserApiTryThrown(outcome, "fetchError"))
    THEN Throw(createError_validation(
            FromError(UserApiTryThrown(outcome, "fetchError")),
            Undefined, Str(UserApiTraceId)))
    ELSE UserApiCatch(UserApiTryThrown(outcome, "fetchError"),
                      "Error fetching users from API")

\* lines 26-52
UserApi_getAll(outcome) ==
    IF UserApiTryThrows(outcome)
    THEN UserApiCatch(UserApiTryThrown(outcome, "fetchError"),
                      "Error fetching users from API")
    ELSE UserApiSchemaParse(outcome.data)

\* lines 54-84: the response body is not read
UserApi_create(outcome) ==
    IF outcome.kind = "reject" \/ ~outcome.ok
    THEN UserApiCatch(UserApiTryThrown(outcome, "fetchError"),
                      "Error creating user in API")
    ELSE Return(Undefined)

----------------------------------------------------------------------------
(* handleZodError (errorHandler.ts) and GetUserUseCase.execute()            *)

\* issue.path.join(".")
DottedPath(issue) == Join(issue.path, ".")

\* lines 69-87: never returns; a value that is not a ZodError is thrown again
\* as it is
handleZodError(error, traceId) ==
    IF InstanceOfZodError(error) THEN
        Throw(NewApplicationError("VALIDATION_ERROR", FromError(error),
            "ZOD_VALIDATION_FAILED",
            [issues |-> error.issues,
             path |-> Join([i \in 1..Len(error.issues) |-> DottedPath(error.issues[i])],
                           ", "),
             invalidFields |-> Len(error.issues)],
            traceId))
    ELSE Throw(error)

\* GetUserUseCase.ts lines 15-22, once userRepository.getAll() has settled;
\* `new Error(...)` is never reached because handleZodError throws
GetUserUseCase_execute(settled) ==
    LET tried == IF settled.kind = "throw" THEN settled
                 ELSE MapParse(settled.value) IN
    IF tried.kind = "return" THEN tried
    ELSE handleZodError(tried.value, Undefined)

----------------------------------------------------------------------------
(* CreateUserUseCase.execute(input)                                         *)

\* the issues of z.object({ name: z.string().min(1, ...), email: z.email(...) })
\* with the messages the schema gives
InputIssues(input, nameMessage, emailMessage) ==
    (IF input.name.class # "string" THEN StringIssues("name", input.name)
     ELSE IF Len(input.name.value) < 1 THEN <<Issue(<<"name">>, nameMessage)>>
     ELSE <<>>)
    \o (IF input.email.class = "string" /\ IsEmail(input.email.value) THEN <<>>
        ELSE <<Issue(<<"email">>, emailMessage)>>)

\* lines 7-10 and 21
CreateUserInputSchemaParse(input) ==
    LET issues == InputIssues(input, "NAME_REQUIRED", "INVALID_EMAIL_FORMAT") IN
    IF Len(issues) = 0 THEN Return(input) ELSE Throw(NewZodError(issues))

\* lines 33-36: the test for a duplicate
IsDuplicateError(error) ==
    /\ InstanceOfError(error)
    /\ \/ Includes(MessageOf(error), "duplicate")
       \/ Includes(MessageOf(error), "already exists")

\* a variant that hands every failure to handleError and never tests for a
\* duplicate
MutCreateUserCatchNoDuplicateTest(error, input, traceId) ==
    LET appError == handleError(error, Str("CreateUserUseCase.execute"),
                                Str(traceId)) IN
    IF appError.kind = "throw"
    THEN [completion |-> appError, logged |-> <<>>]
    ELSE [completion |-> Throw(appError.value),
          logged |-> <<LogCall(appError.value, "Failed to create user")>>]

\* lines 31-49: the catch block; each path logs once and throws
CreateUserCatch(error, input, traceId) ==
    IF IsDuplicateError(error) THEN
        LET conflictError == createError_conflict(
                "A user with this email already exists",
                [email |-> input.email], Str(traceId)) IN
        [completion |-> Throw(conflictError),
         logged |-> <<LogCall(conflictError,
                              "CreateUserUseCase.execute - Duplicate user")>>]
    ELSE
        LET appError == handleError(error, Str("CreateUserUseCase.execute"),
                                    Str(traceId)) IN
        IF appError.kind = "throw"
        THEN [completion |-> appError, logged |-> <<>>]
        ELSE [completion |-> Throw(appError.value),
              logged |-> <<LogCall(appError.value, "Failed to create user")>>]

\* line 23-27: the user handed to the repository
NewUser(validInput, userId) ==
    [id |-> Str(userId), name |-> validInput.name, email |-> validInput.email]

\* lines 17-50, with the identifiers drawn at lines 18 and 24 and the way
\* userRepository.create(user) settles
CreateUserUseCase_execute(input, settled, traceId, userId) ==
    LET validInput == CreateUserInputSchemaParse(input) IN
    IF validInput.kind = "throw" THEN CreateUserCatch(validInput.value, input, traceId)
    ELSE IF settled.kind = "throw" THEN CreateUserCatch(settled.value, input, traceId)
    ELSE [completion |-> settled, logged |-> <<>>]

\* a variant that builds and stores the user before looking at the input
MutCreateUserCreatedUnvalidated(input, userId) ==
    <<[id |-> Str(userId), name |-> input.name, email |-> input.email]>>

\* line 29: the users execute(input) passes to userRepository.create, in order
CreateUserCreated(input, userId) ==
    LET validInput == CreateUserInputSchemaParse(input) IN
    IF validInput.kind = "throw" THEN <<>>
    ELSE <<NewUser(validInput.value, userId)>>

\* the number of identifiers execute(input) draws
CreateUserDraws(input) ==
    IF CreateUserInputSchemaParse(input).kind = "throw" THEN 1 ELSE 2

----------------------------------------------------------------------------
(* withErrorHandling (errorHandler.examples.ts): the wrapper of a handler.  *)

\* a variant that stamps the error it rethrows with a code of its own
MutWithErrorHandlingCatchRecodes(error) ==
    LET appError == handleError(error, Str("API Middleware"), Undefined) IN
    IF appError.kind = "throw"
    THEN [completion |-> appError, logged |-> <<>>]
    ELSE [completion |-> Throw([appError.value EXCEPT !.code = "API_MIDDLEWARE_ERROR"]),
          logged |-> <<LogCall(appError.value, Undefined)>>]

\* lines 83-87: the catch block
WithErrorHandlingCatch(error) ==
    LET appError == handleError(error, Str("API Middleware"), Undefined) IN
    IF appError.kind = "throw"
    THEN [completion |-> appError, logged |-> <<>>]
    ELSE [completion |-> Throw(appError.value),
          logged |-> <<LogCall(appError.value, Undefined)>>]

----------------------------------------------------------------------------
(* The createUser server action and the CreateUserForm that shows its       *)
(* result.                                                                  *)

\* create-user.ts lines 9-12 and 23
CreateUserUInputSchemaParse(input) ==
    LET issues == InputIssues(input, "Name is required", "Invalid email format") IN
    IF Len(issues) = 0 THEN Return(input) ELSE Throw(NewZodError(issues))

\* lines 17-29: the try block, with the identifiers execute draws and the
\* outcome of the fetch of UserApi.create; `useCase` is how execute settled,
\* if it ran
CreateUserTry(formData, outcome, traceId, userId) ==
    LET validateInput == CreateUserUInputSchemaParse(formData) IN
    IF validateInput.kind = "throw"
    THEN [completion |-> validateInput, useCase |-> [kind |-> "none"],
          created |-> <<>>]
    ELSE LET executed == CreateUserUseCase_execute(validateInput.value,
                            UserApi_create(outcome), traceId, userId) IN
         [completion |-> IF executed.completion.kind = "throw"
                         THEN executed.completion
                         ELSE Return([success |-> TRUE]),
          useCase |-> executed.completion,
          created |-> CreateUserCreated(validateInput.value, userId)]

\* lines 14-39: the catch block first calls createError.unknown, a member
\* createError does not have, so the block throws before its return statement
createUser(formData, outcome, traceId, userId) ==
    LET tried == CreateUserTry(formData, outcome, traceId, userId) IN
    [completion |-> IF tried.completion.kind = "throw"
                    THEN Throw(NotAFunction("unknown"))
                    ELSE tried.completion,
     useCase |-> tried.useCase, created |-> tried.created]

\* UserRepository.ts lines 15-24 and 36: the error state of the form after
\* handleSubmit; a rejected createUser leaves the state as it was
HandleSubmit(error, result) ==
    IF result.kind = "throw" THEN error
    ELSE IF ~result.value.success
         THEN (IF "error" \in DOMAIN result.value /\ result.value.error # ""
               THEN Str(result.value.error) ELSE Str("UNKNOWN_ERROR"))
    ELSE Null

----------------------------------------------------------------------------
(* The values the operations are called with.                              *)

\* an ApplicationError constructed earlier, by a repository
EarlierApplicationError(type, message, code, details, traceId) ==
    [class |-> "ApplicationError", type |-> type, message |-> message,
     code |-> code, details |-> details, timestamp |-> 0, traceId |-> traceId]

ApplicationErrors ==
    {EarlierApplicationError("NETWORK_ERROR", "Error fetching users from API",
        "NETWORK_ERROR", [error |-> "fetch failed", traceId |-> "trace-R"], "trace-R"),
     EarlierApplicationError("NOT_FOUND_ERROR", "User not found", "NOT_FOUND",
        [resource |-> "User"], "trace-R")}

ZodErrors ==
    {NewZodError(<<Issue(<<"email">>, "INVALID_EMAIL_FORMAT")>>),
     NewZodError(<<Issue(<<"name">>, "NAME_REQUIRED"),
                   Issue(<<"email">>, "INVALID_EMAIL_FORMAT")>>),
     NewZodError(<<Issue(<<>>, "Invalid input: expected object, received undefined")>>),
     NewZodError(<<Issue(<<"id">>, "Invalid input: expected string, received number"),
                   Issue(<<"profile", "name">>, "unauthorized name not found"),
                   Issue(<<"email">>, "INVALID_EMAIL_FORMAT")>>)}

\* what fetch rejects with when the request cannot complete: undici's and
\* Chrome's TypeError mention "fetch", Safari's does not; a timeout of
\* AbortSignal.timeout() is a DOMException; a socket error of node is an Error
TransportFaults ==
    {NewTypeError("fetch failed", TRUE),
     NewTypeError("Failed to fetch", TRUE),
     NewTypeError("fetch failed: proxy said Unauthorized", TRUE),
     NewTypeError("Load failed", TRUE),
     NewDOMException("The operation was aborted due to timeout", TRUE),
     NewError("connect ECONNREFUSED 127.0.0.1:443", TRUE)}

GenericErrors ==
    {NewError("Database connection failed", FALSE),
     NewError("User not found", FALSE),
     NewError("UNAUTHORIZED", FALSE),
     NewError("Access Forbidden: resource Not Found", FALSE),
     NewError("Unauthorized, forbidden, not found", FALSE),
     NewError("could not fetch user", FALSE),
     NewTypeError("Cannot read properties of undefined (reading 'map')", FALSE),
     NewTypeError("Fetch handler is forbidden", FALSE)}

NonErrors ==
    {Null, Undefined, Str("boom"), Str(""), Num(404), PlainObject, NullProtoObject}

Failures == ApplicationErrors \cup ZodErrors \cup TransportFaults
                \cup GenericErrors \cup NonErrors

Contexts == {Undefined, Str("UserService.load")}
TraceIds == {Undefined, Str(""), Str("trace-A")}

Texts == {"User", "Access denied"}
MessageArgs == {Undefined} \cup {Str(t) : t \in Texts}
DetailsArgs == {Undefined, [field |-> "email"]}

Alice == [id |-> Str("1"), name |-> Str("Alice"), email |-> Str("alice@example.com")]
Bob == [id |-> Str("2"), name |-> Str("Bob"), email |-> Str("bob@example.com")]
InvalidAlice == [id |-> Str("1"), name |-> Str("Alice"), email |-> Str("invalid-email")]
InvalidBob == [id |-> Num(2), name |-> Str("Bob"), email |-> Str("bob@example")]

\* what userRepository.getAll() settles with
RepositoryLists ==
    {<<>>, <<Alice>>, <<Alice, Bob>>, <<InvalidAlice>>, <<Alice, InvalidBob>>,
     <<InvalidAlice, Bob>>}

ApiAlice == [id |-> Num(1), firstName |-> Str("Alice"), email |-> Str("alice@example.com")]
ApiBob == [id |-> Num(2), firstName |-> Str("Bob"), email |-> Str("bob@example.com")]
ApiInvalidAlice == [id |-> Num(1), firstName |-> Str("Alice"), email |-> Str("invalid-email")]
ApiInvalidBob == [id |-> Str("2"), firstName |-> Null, email |-> Str("bob@example.com")]

\* how the fetch of a UserApi method settles: it rejects, or it resolves with
\* a response that is ok or not, whose JSON body has a users array or not
Rejected(error) == [kind |-> "reject", error |-> error]
Responded(ok, data) == [kind |-> "response", ok |-> ok, data |-> data]
RespondedNotJson(ok) == [kind |-> "response", ok |-> ok]
FetchRejections == {Rejected(error) : error \in TransportFaults}
FetchResponses ==
    {Responded(ok, data) : ok \in BOOLEAN,
        data \in {[message |-> "Service unavailable"],
                  [users |-> <<>>],
                  [users |-> <<ApiAlice, ApiBob>>],
                  [users |-> <<ApiInvalidAlice>>],
                  [users |-> <<ApiAlice, ApiInvalidBob>>]}}
FetchResponsesNotJson == {RespondedNotJson(ok) : ok \in BOOLEAN}
UserApiMethods == {"getAll", "create"}

\* what execute(input) is given: the type allows any two strings
CreateUserInputs ==
    {[name |-> Str("Alice"), email |-> Str("alice@example.com")],
     [name |-> Str(""), email |-> Str("alice@example.com")],
     [name |-> Str("Bob"), email |-> Str("invalid-email")]}

\* what a repository raises when the user exists already: a driver's Error,
\* an error the repository has classified itself, a bare string
DuplicateErrors ==
    {NewError("duplicate key value violates unique constraint", FALSE),
     NewError("User already exists", FALSE),
     EarlierApplicationError("DATABASE_ERROR",
        "duplicate key value violates unique constraint", "DATABASE_ERROR",
        [table |-> "users"], "trace-R"),
     Str("duplicate user")}

\* the two fields of the submitted form
FormDatas ==
    {[name |-> Str("Alice"), email |-> Str("alice@example.com")],
     [name |-> Str(""), email |-> Str("alice@example.com")]}

----------------------------------------------------------------------------
(* The state machine.                                                      *)

\* the modules are loaded: UserApi's module has drawn its traceId, the first
\* identifier of the process
Init ==
    /\ now = 0
    /\ uuidCount = 1
    /\ call = [fn |-> "none"]
    /\ exec = [pc |-> "idle"]

\* time passes between two readings of the clock
Tick ==
    /\ now < MaxNow
    /\ now' = now + 1
    /\ UNCHANGED <<uuidCount, call, exec>>

\* handleError(error, context, traceId) on a failure raised by a collaborator
HandleError ==
    \E error \in Failures, context \in Contexts, traceId \in TraceIds :
        /\ call.fn = "none"
        /\ exec.pc = "idle"
        /\ uuidCount < MaxUuid
        /\ call' = [fn |-> "handleError", nested |-> FALSE, error |-> error,
                    context |-> context, traceId |-> traceId,
                    completion |-> handleError(error, context, traceId)]
        /\ uuidCount' = IF HandleErrorDrawsUuid(error, traceId)
                        THEN uuidCount + 1 ELSE uuidCount
        /\ UNCHANGED <<now, exec>>

\* handleError(e, context, traceId) on the error e a first handleError returned
HandleErrorAgain ==
    /\ call.fn = "handleError"
    /\ ~call.nested
    /\ call.completion.kind = "return"
    /\ \E context \in Contexts, traceId \in TraceIds :
        LET error == call.completion.value IN
        /\ uuidCount < MaxUuid
        /\ call' = [fn |-> "handleError", nested |-> TRUE, error |-> error,
                    context |-> context, traceId |-> traceId,
                    completion |-> handleError(error, context, traceId)]
        /\ uuidCount' = IF HandleErrorDrawsUuid(error, traceId)
                        THEN uuidCount + 1 ELSE uuidCount
        /\ UNCHANGED <<now, exec>>

\* createError.<factory>(...)
CreateError ==
    \E factory \in Factories, message \in MessageArgs, details \in DetailsArgs,
       traceId \in TraceIds :
        /\ call.fn = "none"
        /\ exec.pc = "idle"
        /\ uuidCount < MaxUuid
        /\ factory \in {"validation", "notFound", "conflict", "database"}
              => message # Undefined
        /\ factory \in {"notFound", "unauthorized", "forbidden", "rateLimit"}
              => details = Undefined
        /\ call' = [fn |-> "createError", factory |-> factory, message |-> message,
                    details |-> details, traceId |-> traceId,
                    completion |-> Return(createError(factory, message, details, traceId))]
        /\ uuidCount' = IF Truthy(traceId) THEN uuidCount ELSE uuidCount + 1
        /\ UNCHANGED <<now, exec>>

\* the caller is done with the result of the call
CallReturn ==
    /\ call.fn # "none"
    /\ call' = [fn |-> "none"]
    /\ UNCHANGED <<now, uuidCount, exec>>

\* execute() up to `await this.userRepository.getAll()`
ExecuteStart ==
    /\ exec.pc = "idle"
    /\ call.fn = "none"
    /\ uuidCount < MaxUuid
    /\ exec' = [pc |-> "awaiting", traceId |-> RandomUUID, getAllCalls |-> 1]
    /\ uuidCount' = uuidCount + 1
    /\ UNCHANGED <<now, call>>

\* the repository settles and execute() runs to its end
ExecuteFinish(settled) ==
    LET body == ExecuteBody(settled, exec.traceId) IN
    exec' = [pc |-> "done", traceId |-> exec.traceId,
             getAllCalls |-> exec.getAllCalls, settled |-> settled,
             completion |-> body.completion, logged |-> body.logged]

ExecuteSettle ==
    /\ exec.pc = "awaiting"
    /\ \/ \E users \in RepositoryLists : ExecuteFinish(Return(users))
       \/ \E error \in Failures : ExecuteFinish(Throw(error))
    /\ UNCHANGED <<now, uuidCount, call>>

\* the caller has its result; the next execute() may start
ExecuteNext ==
    /\ exec.pc = "done"
    /\ exec' = [pc |-> "idle"]
    /\ UNCHANGED <<now, uuidCount, call>>

\* TRUE when the caller holds an ApplicationError that handleError or a
\* createError constructor returned
HoldsApplicationError ==
    /\ call.fn \in {"handleError", "createError"}
    /\ call.completion.kind = "return"

\* the presentation side asks the policy about the error it holds
Policy ==
    /\ HoldsApplicationError
    /\ LET error == call.completion.value IN
       call' = [fn |-> "policy", error |-> error,
                userFacing |-> isUserFacingError(error),
                friendly |-> getUserFriendlyMessage(error),
                status |-> getStatusCode(error.type),
                json |-> toJSON(error)]
    /\ UNCHANGED <<now, uuidCount, exec>>

ApiRouteFails(error) ==
    LET caught == ApiRouteCatch(error) IN
    /\ uuidCount < MaxUuid
    /\ call' = [fn |-> "apiRoute", error |-> error, appError |-> caught.appError,
                logged |-> caught.logged, completion |-> caught.completion]
    /\ uuidCount' = IF HandleErrorDrawsUuid(error, Undefined)
                    THEN uuidCount + 1 ELSE uuidCount
    /\ UNCHANGED <<now, exec>>

\* apiRouteExample() when someApiLogic fails with a raw failure, or with the
\* ApplicationError the caller holds
ApiRoute ==
    \/ /\ call.fn = "none"
       /\ exec.pc = "idle"
       /\ \E error \in Failures : ApiRouteFails(error)
    \/ /\ HoldsApplicationError
       /\ ApiRouteFails(call.completion.value)

UserApiCompletion(method, outcome) ==
    IF method = "getAll" THEN UserApi_getAll(outcome) ELSE UserApi_create(outcome)

\* a call of UserApi.getAll() or UserApi.create(user) that has settled;
\* `earlier` keeps how the call before it settled
UserApiCalled(method, outcome, earlier) ==
    /\ call' = [fn |-> "UserApi", method |-> method, outcome |-> outcome,
                completion |-> UserApiCompletion(method, outcome),
                earlier |-> earlier]
    /\ UNCHANGED <<now, uuidCount, exec>>

UserApiCall ==
    /\ call.fn = "none"
    /\ exec.pc = "idle"
    /\ \E method \in UserApiMethods :
          \/ \E outcome \in FetchRejections : UserApiCalled(method, outcome, <<>>)
          \/ \E outcome \in FetchResponses : UserApiCalled(method, outcome, <<>>)
          \/ \E outcome \in FetchResponsesNotJson : UserApiCalled(method, outcome, <<>>)

\* a second, separate call on the same module
UserApiCallAgain ==
    /\ call.fn = "UserApi"
    /\ call.earlier = <<>>
    /\ call.completion.kind = "throw"
    /\ \E method \in UserApiMethods :
          \/ \E outcome \in FetchRejections :
                UserApiCalled(method, outcome, <<call.completion>>)
          \/ \E outcome \in FetchResponses :
                UserApiCalled(method, outcome, <<call.completion>>)

\* the ApplicationError of handleZodError is built without a traceId
GetUserDrawsUuid(settled) ==
    LET tried == IF settled.kind = "throw" THEN settled
                 ELSE MapParse(settled.value) IN
    tried.kind = "throw" /\ InstanceOfZodError(tried.value)

GetUserExecuted(settled) ==
    /\ call' = [fn |-> "GetUserUseCase.execute", settled |-> settled,
                completion |-> GetUserUseCase_execute(settled)]
    /\ uuidCount' = IF GetUserDrawsUuid(settled) THEN uuidCount + 1 ELSE uuidCount
    /\ UNCHANGED <<now, exec>>

\* GetUserUseCase.execute() with the way its repository settles
GetUserExecute ==
    /\ call.fn = "none"
    /\ exec.pc = "idle"
    /\ uuidCount < MaxUuid
    /\ \/ \E users \in RepositoryLists : GetUserExecuted(Return(users))
       \/ \E error \in Failures : GetUserExecuted(Throw(error))

CreateUserExecuted(input, settled) ==
    LET traceId == UuidOf(uuidCount)
        userId == UuidOf(uuidCount + 1)
        executed == CreateUserUseCase_execute(input, settled, traceId, userId)
    IN
    /\ uuidCount + CreateUserDraws(input) <= MaxUuid
    /\ call' = [fn |-> "CreateUserUseCase.execute", input |-> input,
                settled |-> settled, traceId |-> traceId,
                at |-> now, created |-> CreateUserCreated(input, userId),
                completion |-> executed.completion, logged |-> executed.logged]
    /\ uuidCount' = uuidCount + CreateUserDraws(input)
    /\ UNCHANGED <<now, exec>>

\* CreateUserUseCase.execute(input) with the way its repository settles
CreateUserExecute ==
    /\ call.fn = "none"
    /\ exec.pc = "idle"
    /\ \E input \in CreateUserInputs :
          \/ CreateUserExecuted(input, Return(NewUser(input, UuidOf(uuidCount + 1))))
          \/ \E error \in Failures \cup DuplicateErrors :
                CreateUserExecuted(input, Throw(error))

WithErrorHandlingCaught(handler, error, logged) ==
    LET caught == WithErrorHandlingCatch(error) IN
    /\ uuidCount < MaxUuid
    /\ call' = [fn |-> "withErrorHandling", handler |-> handler, error |-> error,
                completion |-> caught.completion,
                logged |-> logged \o caught.logged]
    /\ uuidCount' = IF HandleErrorDrawsUuid(error, Undefined)
                    THEN uuidCount + 1 ELSE uuidCount
    /\ UNCHANGED <<now, exec>>

\* a handler wrapped by withErrorHandling fails: the handler throws a raw
\* failure, or it is the use-case whose execute has just thrown
WithErrorHandling ==
    \/ /\ call.fn = "none"
       /\ exec.pc = "idle"
       /\ \E error \in Failures : WithErrorHandlingCaught("handler", error, <<>>)
    \/ /\ call.fn = "CreateUserUseCase.execute"
       /\ call.completion.kind = "throw"
       /\ WithErrorHandlingCaught(call.fn, call.completion.value, call.logged)

Submitted(formData, outcome) ==
    LET draws == IF CreateUserUInputSchemaParse(formData).kind = "throw"
                 THEN 0 ELSE CreateUserDraws(formData)
        action == createUser(formData, outcome, UuidOf(uuidCount),
                             UuidOf(uuidCount + 1))
    IN
    /\ uuidCount + draws <= MaxUuid
    /\ call' = [fn |-> "CreateUserForm", formData |-> formData,
                outcome |-> outcome, useCase |-> action.useCase,
                created |-> action.created,
                completion |-> action.completion,
                error |-> HandleSubmit(Null, action.completion)]
    /\ uuidCount' = uuidCount + draws
    /\ UNCHANGED <<now, exec>>

\* the user submits the form, which starts with no error shown
Submit ==
    /\ call.fn = "none"
    /\ exec.pc = "idle"
    /\ \E formData \in FormDatas :
          \/ \E outcome \in FetchRejections : Submitted(formData, outcome)
          \/ \E outcome \in FetchResponses : Submitted(formData, outcome)

\* One caller at a time either calls the classifier or a factory directly, or
\* runs a use-case; the two share nothing but the clock and the identifiers.
Next ==
    \/ Tick
    \/ HandleError
    \/ HandleErrorAgain
    \/ CreateError
    \/ CallReturn
    \/ ExecuteStart
    \/ ExecuteSettle
    \/ ExecuteNext
    \/ Submit
    \/ CreateUserExecute
    \/ WithErrorHandling
    \/ GetUserExecute
    \/ UserApiCall
    \/ UserApiCallAgain
    \/ ApiRoute
    \/ Policy

Spec == Init /\ [][Next]_vars

----------------------------------------------------------------------------
(* Properties.                                                              *)

HandleErrorCalled == call.fn = "handleError"
HandleErrorReturned == HandleErrorCalled /\ call.completion.kind = "return"

\* C1: handleError is total: for every input value, context and traceId it
\* returns an ApplicationError and never throws.
C1_HandleErrorTotal ==
    HandleErrorCalled =>
        /\ call.completion.kind = "return"
        /\ InstanceOfApplicationError(call.completion.value)

\* C2: handleError returns an ApplicationError it is given as it is, every
\* field unchanged, whatever context and traceId are passed; so classifying
\* the result of a classification gives that result again.
C2_PassThroughIdempotent ==
    (HandleErrorCalled /\ (call.nested \/ InstanceOfApplicationError(call.error))) =>
        call.completion = Return(call.error)

\* a second classification, later and under another traceId, of an error the
\* first classification built
C2_Witness ==
    /\ HandleErrorCalled
    /\ call.nested
    /\ call.error.code = "GENERIC_ERROR"
    /\ call.error.timestamp < now
    /\ call.context # call.error.details.context
    /\ Truthy(call.traceId)
    /\ call.traceId.value # call.error.traceId
    /\ call.completion.kind = "return"

\* C3 as stated: a traceId supplied to handleError or to a createError
\* constructor is the traceId of the returned error, for every supplied
\* string and every kind of failure.
C3_SuppliedTraceIdAlwaysKept ==
    (call.fn \in {"handleError", "createError"}
        /\ call.traceId.class = "string"
        /\ call.completion.kind = "return") =>
            call.completion.value.traceId = call.traceId.value

\* C3 amended: a non-empty traceId supplied to a createError constructor, or
\* to handleError with a failure that is not an ApplicationError, is the
\* traceId of the returned error; for an empty string a fresh identifier is
\* drawn; an ApplicationError keeps the traceId it came with.
C3_TraceIdPropagation ==
    (call.fn \in {"handleError", "createError"} /\ call.completion.kind = "return") =>
        LET result == call.completion.value
            built == call.fn = "createError" \/ ~InstanceOfApplicationError(call.error)
        IN  /\ (built /\ call.traceId.class = "string" /\ call.traceId.value # "") =>
                    result.traceId = call.traceId.value
            /\ (built /\ call.traceId = Str("")) =>
                    /\ uuidCount > 0
                    /\ result.traceId = UuidOf(uuidCount - 1)
            /\ ~built => result.traceId = call.error.traceId

\* a Zod failure classified under a supplied, non-empty traceId
C3_Witness ==
    /\ HandleErrorReturned
    /\ InstanceOfZodError(call.error)
    /\ call.traceId = Str("trace-A")
    /\ call.completion.value.traceId = "trace-A"

\* the step of handleError's cascade that a failure matches first
C4_FirstStep(e) ==
    IF e.class = "ApplicationError" THEN "classified"
    ELSE IF e.class = "ZodError" THEN "schema"
    ELSE IF e.class = "TypeError" /\ Includes(e.message, "fetch") THEN "transport"
    ELSE IF e.class \in {"Error", "TypeError", "DOMException"} THEN
        IF Includes(ToLowerCase(e.message), "unauthorized") THEN "unauthorized"
        ELSE IF Includes(ToLowerCase(e.message), "forbidden") THEN "forbidden"
        ELSE IF Includes(ToLowerCase(e.message), "not found") THEN "not found"
        ELSE "generic"
    ELSE "other"

C4_CodeOfStep(step) ==
    CASE step = "schema" -> "ZOD_VALIDATION_FAILED"
      [] step = "transport" -> "NETWORK_REQUEST_FAILED"
      [] step = "unauthorized" -> "UNAUTHORIZED"
      [] step = "forbidden" -> "FORBIDDEN"
      [] step = "not found" -> "NOT_FOUND"
      [] step = "generic" -> "GENERIC_ERROR"
      [] step = "other" -> "UNKNOWN_ERROR"

C4_TypeOfStep(step) ==
    CASE step = "schema" -> "VALIDATION_ERROR"
      [] step = "transport" -> "NETWORK_ERROR"
      [] step = "unauthorized" -> "AUTHENTICATION_ERROR"
      [] step = "forbidden" -> "AUTHORIZATION_ERROR"
      [] step = "not found" -> "NOT_FOUND_ERROR"
      [] step \in {"generic", "other"} -> "UNKNOWN_ERROR"

\* C4: handleError gives a failure the result of the first step it matches,
\* in the order already-classified, schema failure, fetch TypeError, then the
\* cues "unauthorized", "forbidden", "not found", then everything else.
C4_FirstMatchWins ==
    HandleErrorReturned =>
        LET step == C4_FirstStep(call.error)
            result == call.completion.value
        IN  IF step = "classified" THEN result = call.error
            ELSE /\ result.type = C4_TypeOfStep(step)
                 /\ result.code = C4_CodeOfStep(step)

\* a message with both "forbidden" and "not found" is AUTHORIZATION
C4_Witness ==
    /\ HandleErrorReturned
    /\ call.error = NewError("Access Forbidden: resource Not Found", FALSE)
    /\ call.completion.value.type = "AUTHORIZATION_ERROR"

\* C5 as stated: a ZodError with n issues becomes VALIDATION with code
\* "VALIDATION_FAILED", details holding the issues, n and the context.
C5_CodeValidationFailed ==
    (HandleErrorCalled /\ InstanceOfZodError(call.error)) =>
        /\ call.completion.kind = "return"
        /\ call.completion.value.type = "VALIDATION_ERROR"
        /\ call.completion.value.code = "VALIDATION_FAILED"
        /\ call.completion.value.details =
              [issues |-> call.error.issues, context |-> call.context,
               invalidFields |-> Len(call.error.issues)]

\* C5 amended: a ZodError with n issues becomes VALIDATION with code
\* "ZOD_VALIDATION_FAILED", a message that starts "Validation error: " and
\* holds every issue's message and dotted path, and details holding the raw
\* issues, invalidFields = n and the supplied context.
C5_ZodClassification ==
    (HandleErrorCalled /\ InstanceOfZodError(call.error)) =>
        /\ call.completion.kind = "return"
        /\ LET result == call.completion.value
               issues == call.error.issues
           IN  /\ result.type = "VALIDATION_ERROR"
               /\ result.code = "ZOD_VALIDATION_FAILED"
               /\ SubSeq(result.message, 1, 18) = "Validation error: "
               /\ \A i \in 1..Len(issues) :
                     /\ Includes(result.message, issues[i].message)
                     /\ \A j \in 1..Len(issues[i].path) :
                           Includes(result.message, issues[i].path[j])
               /\ result.details =
                     [issues |-> issues, context |-> call.context,
                      invalidFields |-> Len(issues)]

\* two issues (name, email) classified with a context
C5_Witness ==
    /\ HandleErrorReturned
    /\ InstanceOfZodError(call.error)
    /\ Len(call.error.issues) = 2
    /\ call.context = Str("UserService.load")
    /\ call.completion.value.details.invalidFields = 2
    /\ call.completion.value.message =
          "Validation error: NAME_REQUIRED at \"name\"; INVALID_EMAIL_FORMAT at \"email\""

ExecuteDone == exec.pc = "done"

\* a record that the user schema rejects
C6_ViolatesSchema(user) ==
    \/ user.id.class # "string"
    \/ user.name.class # "string"
    \/ user.email.class # "string"
    \/ ~IsEmail(user.email.value)

\* C6: when the repository returns a list with a record that violates the
\* user schema, GetUsersUseCase.execute returns no users: it throws an
\* ApplicationError of type VALIDATION_ERROR, code "ZOD_VALIDATION_FAILED",
\* whose message names the failing issue and its field path.
C6_InvalidRecordRejected ==
    (/\ ExecuteDone
     /\ exec.settled.kind = "return"
     /\ \E i \in 1..Len(exec.settled.value) : C6_ViolatesSchema(exec.settled.value[i])) =>
        /\ exec.completion.kind = "throw"
        /\ InstanceOfApplicationError(exec.completion.value)
        /\ exec.completion.value.type = "VALIDATION_ERROR"
        /\ exec.completion.value.code = "ZOD_VALIDATION_FAILED"
        /\ LET users == exec.settled.value
               first == CHOOSE i \in 1..Len(users) :
                            /\ C6_ViolatesSchema(users[i])
                            /\ \A j \in 1..(i - 1) : ~C6_ViolatesSchema(users[j])
               message == exec.completion.value.message
           IN  /\ users[first].id.class # "string" =>
                     Includes(message, "expected string, received number at \"id\"")
               /\ ~IsEmail(users[first].email.value) =>
                     Includes(message, "INVALID_EMAIL_FORMAT at \"email\"")
               /\ users = <<InvalidAlice>> =>
                     message = "Validation error: INVALID_EMAIL_FORMAT at \"email\""

\* a valid record followed by an invalid one: nothing is returned
C6_Witness ==
    /\ ExecuteDone
    /\ exec.settled.kind = "return"
    /\ exec.settled.value = <<Alice, InvalidBob>>
    /\ exec.completion.kind = "throw"
    /\ exec.completion.value.code = "ZOD_VALIDATION_FAILED"

\* a value raised because the transport call itself could not complete
C7_IsTransportFault(e) ==
    e.class \in {"Error", "TypeError", "DOMException"} /\ e.transport

\* C7: every transport-level fault, whatever its message says, is classified
\* NETWORK with code "NETWORK_REQUEST_FAILED", message "Network request
\* failed", and details carrying the original message and the context.
C7_TransportFaultIsNetwork ==
    (HandleErrorCalled /\ C7_IsTransportFault(call.error)) =>
        /\ call.completion.kind = "return"
        /\ call.completion.value.type = "NETWORK_ERROR"
        /\ call.completion.value.code = "NETWORK_REQUEST_FAILED"
        /\ call.completion.value.message = "Network request failed"
        /\ call.completion.value.details =
              [originalError |-> call.error.message, context |-> call.context]

\* an Error instance that reaches the message cues of handleError
C8_ReachesCues(e) ==
    /\ e.class \in {"Error", "TypeError", "DOMException"}
    /\ ~(e.class = "TypeError" /\ Includes(e.message, "fetch"))

C8_HasCue(e, cue) == Includes(ToLowerCase(e.message), cue)

\* C8: for a generic Error the cues are matched on the lower-cased message:
\* "unauthorized" gives AUTHENTICATION / "UNAUTHORIZED" / "Authentication
\* failed", else "forbidden" gives AUTHORIZATION / "FORBIDDEN" / "Access
\* denied", else "not found" gives NOT_FOUND / "NOT_FOUND" / "Resource not
\* found"; details carry the original message and the context.
C8_CuesCaseInsensitive ==
    (/\ HandleErrorCalled
     /\ C8_ReachesCues(call.error)
     /\ \E cue \in {"unauthorized", "forbidden", "not found"} : C8_HasCue(call.error, cue)) =>
        /\ call.completion.kind = "return"
        /\ LET result == call.completion.value
               triple == <<result.type, result.code, result.message>>
           IN  /\ result.details =
                     [originalError |-> call.error.message, context |-> call.context]
               /\ triple =
                     IF C8_HasCue(call.error, "unauthorized")
                     THEN <<"AUTHENTICATION_ERROR", "UNAUTHORIZED", "Authentication failed">>
                     ELSE IF C8_HasCue(call.error, "forbidden")
                     THEN <<"AUTHORIZATION_ERROR", "FORBIDDEN", "Access denied">>
                     ELSE <<"NOT_FOUND_ERROR", "NOT_FOUND", "Resource not found">>

\* an upper-case cue is matched
C8_Witness ==
    /\ HandleErrorReturned
    /\ call.error = NewError("UNAUTHORIZED", FALSE)
    /\ call.context = Str("UserService.load")
    /\ call.completion.value.code = "UNAUTHORIZED"

C9_GenericNoCue(e) ==
    /\ C8_ReachesCues(e)
    /\ \A cue \in {"unauthorized", "forbidden", "not found"} : ~C8_HasCue(e, cue)

\* C9: a generic Error without a cue is UNKNOWN with code "GENERIC_ERROR" and
\* its message kept; when getAll fails with such an Error, execute throws an
\* ApplicationError of type UNKNOWN_ERROR with the repository error's message.
C9_GenericMessageKept ==
    /\ (HandleErrorCalled /\ C9_GenericNoCue(call.error)) =>
          /\ call.completion.kind = "return"
          /\ call.completion.value.type = "UNKNOWN_ERROR"
          /\ call.completion.value.code = "GENERIC_ERROR"
          /\ call.completion.value.message = call.error.message
    /\ (ExecuteDone /\ exec.settled.kind = "throw" /\ C9_GenericNoCue(exec.settled.value)) =>
          /\ exec.completion.kind = "throw"
          /\ InstanceOfApplicationError(exec.completion.value)
          /\ exec.completion.value.type = "UNKNOWN_ERROR"
          /\ exec.completion.value.code = "GENERIC_ERROR"
          /\ exec.completion.value.message = exec.settled.value.message

\* the repository fails with "Database connection failed"
C9_Witness ==
    /\ ExecuteDone
    /\ exec.settled.kind = "throw"
    /\ exec.settled.value = NewError("Database connection failed", FALSE)
    /\ exec.completion.kind = "throw"
    /\ exec.completion.value.message = "Database connection failed"

\* C10: every failure that is neither an Error nor an ApplicationError is
\* UNKNOWN with code "UNKNOWN_ERROR", message "An unknown error occurred",
\* and details holding the stringified value and the context.
C10_NonErrorIsUnknown ==
    (HandleErrorCalled /\ ~InstanceOfError(call.error)) =>
        /\ call.completion.kind = "return"
        /\ call.completion.value.type = "UNKNOWN_ERROR"
        /\ call.completion.value.code = "UNKNOWN_ERROR"
        /\ call.completion.value.message = "An unknown error occurred"
        /\ call.completion.value.details.context = call.context
        /\ call.completion.value.details.originalError =
              ToStringCompletion(call.error).value

PolicyAsked == call.fn = "policy"

C11_UserFacingKinds ==
    {"VALIDATION_ERROR", "NOT_FOUND_ERROR", "AUTHENTICATION_ERROR",
     "AUTHORIZATION_ERROR", "CONFLICT_ERROR", "RATE_LIMIT_ERROR"}

\* C11: isUserFacingError is true exactly for VALIDATION, NOT_FOUND,
\* AUTHENTICATION, AUTHORIZATION, CONFLICT and RATE_LIMIT and false for
\* NETWORK, DATABASE and UNKNOWN: the answer is a function of the kind alone.
C11_UserFacingByKind ==
    PolicyAsked =>
        /\ call.error.type \in ErrorType
        /\ call.userFacing = (call.error.type \in C11_UserFacingKinds)
        /\ call.error.type \in {"NETWORK_ERROR", "DATABASE_ERROR", "UNKNOWN_ERROR"}
              => ~call.userFacing

\* a network error with details and a message of its own is not user-facing
C11_Witness ==
    /\ PolicyAsked
    /\ call.error.type = "NETWORK_ERROR"
    /\ call.error.details = [field |-> "email"]
    /\ call.error.message = "User"
    /\ ~call.userFacing

C12_Sentence(type) ==
    CASE type = "VALIDATION_ERROR" -> "Please check your input data and try again."
      [] type = "NOT_FOUND_ERROR" -> "The requested resource was not found."
      [] type = "AUTHENTICATION_ERROR" -> "Please log in to continue."
      [] type = "AUTHORIZATION_ERROR" -> "You don't have permission to perform this action."
      [] type = "NETWORK_ERROR" ->
            "Network error. Please check your connection and try again."
      [] type = "RATE_LIMIT_ERROR" -> "Too many requests. Please wait and try again."
      [] type = "CONFLICT_ERROR" ->
            "There was a conflict with your request. Please try again."
      [] type = "DATABASE_ERROR" -> "A database error occurred. Please try again later."
      [] type = "UNKNOWN_ERROR" -> "An unexpected error occurred. Please try again later."

\* C12: getUserFriendlyMessage returns the fixed sentence of the table for
\* each of the nine kinds (UNKNOWN the default one), and the text holds
\* neither the error's message nor its code.
C12_FriendlySentenceByKind ==
    PolicyAsked =>
        /\ call.error.type \in ErrorType
        /\ call.friendly = C12_Sentence(call.error.type)
        /\ ~Includes(call.friendly, call.error.message)
        /\ ~Includes(call.friendly, call.error.code)

\* an UNKNOWN error that kept the raw message of a generic Error
C12_Witness ==
    /\ PolicyAsked
    /\ call.error.type = "UNKNOWN_ERROR"
    /\ call.error.message = "Database connection failed"
    /\ call.friendly = "An unexpected error occurred. Please try again later."

C20_Status(type) ==
    CASE type = "VALIDATION_ERROR" -> 400
      [] type = "AUTHENTICATION_ERROR" -> 401
      [] type = "AUTHORIZATION_ERROR" -> 403
      [] type = "NOT_FOUND_ERROR" -> 404
      [] type = "CONFLICT_ERROR" -> 409
      [] type = "RATE_LIMIT_ERROR" -> 429
      [] type \in {"NETWORK_ERROR", "DATABASE_ERROR", "UNKNOWN_ERROR"} -> 500

\* C20: getStatusCode is total over the nine kinds: VALIDATION 400,
\* AUTHENTICATION 401, AUTHORIZATION 403, NOT_FOUND 404, CONFLICT 409,
\* RATE_LIMIT 429, and NETWORK, DATABASE and UNKNOWN 500.
C20_StatusByKind ==
    PolicyAsked =>
        /\ call.error.type \in ErrorType
        /\ call.status = C20_Status(call.error.type)

\* a conflict maps to 409
C20_Witness ==
    /\ PolicyAsked
    /\ call.error.type = "CONFLICT_ERROR"
    /\ call.status = 409

C19_KindAndCode(factory) ==
    CASE factory = "validation" -> <<"VALIDATION_ERROR", "VALIDATION_ERROR">>
      [] factory = "notFound" -> <<"NOT_FOUND_ERROR", "NOT_FOUND">>
      [] factory = "unauthorized" -> <<"AUTHENTICATION_ERROR", "UNAUTHORIZED">>
      [] factory = "forbidden" -> <<"AUTHORIZATION_ERROR", "FORBIDDEN">>
      [] factory = "conflict" -> <<"CONFLICT_ERROR", "CONFLICT">>
      [] factory = "database" -> <<"DATABASE_ERROR", "DATABASE_ERROR">>
      [] factory = "network" -> <<"NETWORK_ERROR", "NETWORK_ERROR">>
      [] factory = "rateLimit" -> <<"RATE_LIMIT_ERROR", "RATE_LIMIT_EXCEEDED">>

\* C19: each createError constructor returns an error of its fixed kind and
\* code, and notFound(r) has message "<r> not found" and details {resource: r}.
C19_FactoryKindAndCode ==
    call.fn = "createError" =>
        /\ call.completion.kind = "return"
        /\ LET result == call.completion.value IN
           /\ InstanceOfApplicationError(result)
           /\ <<result.type, result.code>> = C19_KindAndCode(call.factory)
           /\ call.factory = "notFound" =>
                 /\ result.message = call.message.value \o " not found"
                 /\ call.message = Str("User") => result.message = "User not found"
                 /\ result.details = [resource |-> call.message.value]

\* createError.notFound("User")
C19_Witness ==
    /\ call.fn = "createError"
    /\ call.factory = "notFound"
    /\ call.message = Str("User")
    /\ call.completion.value.message = "User not found"
    /\ call.completion.value.details.resource = "User"

ApiRouteAnswered ==
    /\ call.fn = "apiRoute"
    /\ call.appError.kind = "return"

\* C14: for an error of a kind that is not user-facing the API response is
\* the generic message, the traceId and status 500, whatever the message,
\* code and details; for a user-facing kind it is the friendly message, the
\* code, the traceId and the status mapped from the kind.
C14_ResponseByKindAndTraceId ==
    ApiRouteAnswered =>
        LET e == call.appError.value IN
        /\ call.completion.kind = "return"
        /\ call.completion.value =
              IF e.type \in {"NETWORK_ERROR", "DATABASE_ERROR", "UNKNOWN_ERROR"}
              THEN [body |-> [error |-> [message |-> "Internal server error",
                                         traceId |-> e.traceId]],
                    status |-> 500]
              ELSE [body |-> [error |-> [message |-> C12_Sentence(e.type),
                                         code |-> e.code,
                                         traceId |-> e.traceId]],
                    status |-> C20_Status(e.type)]

\* a database error with a message, a code and details of its own
C14_Witness ==
    /\ ApiRouteAnswered
    /\ call.appError.value.type = "DATABASE_ERROR"
    /\ call.appError.value.details = [field |-> "email"]
    /\ call.appError.value.traceId = "trace-A"
    /\ call.completion.value.body.error.message = "Internal server error"
    /\ call.completion.value.status = 500

\* two separate calls of UserApi methods have both failed
UserApiFailedTwice ==
    /\ call.fn = "UserApi"
    /\ call.earlier # <<>>
    /\ call.completion.kind = "throw"

\* C16: the errors of two distinct operations (two separate calls of
\* UserApi.getAll / UserApi.create) never carry the same traceId.
C16_TraceIdPerOperation ==
    UserApiFailedTwice =>
        call.completion.value.traceId # call.earlier[1].value.traceId

\* a timeout of AbortSignal.timeout(): fetch rejects with a DOMException
C18_IsTimeout(e) == e.class = "DOMException"

\* C18: a timeout of an external call is classified NETWORK, never UNKNOWN,
\* with a code that no other network failure gets: neither handleError's
\* "NETWORK_REQUEST_FAILED" nor the "NETWORK_ERROR" of UserApi's catch block.
C18_TimeoutIsDistinctNetwork ==
    /\ (HandleErrorCalled /\ C18_IsTimeout(call.error)) =>
          /\ call.completion.kind = "return"
          /\ call.completion.value.type = "NETWORK_ERROR"
          /\ call.completion.value.code # "NETWORK_REQUEST_FAILED"
    /\ (/\ call.fn = "UserApi"
        /\ call.outcome.kind = "reject"
        /\ C18_IsTimeout(call.outcome.error)) =>
          /\ call.completion.kind = "throw"
          /\ call.completion.value.type = "NETWORK_ERROR"
          /\ call.completion.value.code # "NETWORK_ERROR"

\* the wrapper has caught what CreateUserUseCase.execute threw
C17_ChainFailed ==
    /\ call.fn = "withErrorHandling"
    /\ call.handler = "CreateUserUseCase.execute"

\* C17: along the whole chain the logging hook is called exactly once per
\* failure: a boundary that receives the error a use-case has logged does not
\* log it again.
C17_LoggedOncePerFailure ==
    C17_ChainFailed => Len(call.logged) = 1

\* a failure of the repository is not swallowed, and what execute throws is
\* an ApplicationError
C15_Structured(settled, completion) ==
    /\ settled.kind = "throw" => completion.kind = "throw"
    /\ completion.kind = "throw" => InstanceOfApplicationError(completion.value)

\* C15: every failure that leaves the execute of GetUserUseCase,
\* GetUsersUseCase or CreateUserUseCase is an ApplicationError, whatever the
\* repository or the schema raised; none is swallowed.
C15_OnlyStructuredErrorsLeave ==
    /\ call.fn \in {"GetUserUseCase.execute", "CreateUserUseCase.execute"} =>
          C15_Structured(call.settled, call.completion)
    /\ ExecuteDone => C15_Structured(exec.settled, exec.completion)

\* the create behind a submitted form failed with an error of a kind that
\* is not user-facing
C13_NotUserFacingFailure ==
    /\ call.fn = "CreateUserForm"
    /\ call.useCase.kind = "throw"
    /\ InstanceOfApplicationError(call.useCase.value)
    /\ call.useCase.value.type \in {"NETWORK_ERROR", "DATABASE_ERROR", "UNKNOWN_ERROR"}

\* C13: for a failing create whose error is NETWORK, DATABASE or UNKNOWN the
\* text the form shows is a generic fallback, not the message of the error.
C13_FormShowsGenericFallback ==
    C13_NotUserFacingFailure =>
        /\ call.error.class = "string"
        /\ call.error.value \in
              {"UNKNOWN_ERROR", "Internal server error",
               "An unexpected error occurred. Please try again later."}
        /\ call.error.value # call.useCase.value.message

\* every logError call of the list was given the error e
C21_AllLogged(logged, e) == \A i \in DOMAIN logged : logged[i].error = e

\* C21: an ApplicationError is the same after every operation that receives
\* it: handleError returns it with its six fields as they were, logError and
\* the policy functions leave it alone, toJSON copies the fields, and a
\* use-case or a boundary throws what it received.
C21_ImmutableAfterConstruction ==
    /\ (HandleErrorCalled /\ InstanceOfApplicationError(call.error)) =>
          call.completion = Return(call.error)
    /\ (call.fn = "withErrorHandling" /\ InstanceOfApplicationError(call.error)) =>
          /\ call.completion = Throw(call.error)
          /\ C21_AllLogged(call.logged, call.error)
    /\ (call.fn = "apiRoute" /\ InstanceOfApplicationError(call.error)) =>
          /\ call.appError = Return(call.error)
          /\ C21_AllLogged(call.logged, call.error)
    /\ PolicyAsked =>
          \A f \in {"type", "message", "code", "details", "timestamp", "traceId"} :
              call.json[f] = call.error[f]
    /\ (/\ ExecuteDone
        /\ exec.settled.kind = "throw"
        /\ InstanceOfApplicationError(exec.settled.value)) =>
          /\ exec.completion = Throw(exec.settled.value)
          /\ C21_AllLogged(exec.logged, exec.settled.value)
    /\ (/\ call.fn = "CreateUserUseCase.execute"
        /\ call.created # <<>>
        /\ call.settled.kind = "throw"
        /\ InstanceOfApplicationError(call.settled.value)
        /\ call.completion.value.type # "CONFLICT_ERROR") =>
          /\ call.completion = Throw(call.settled.value)
          /\ C21_AllLogged(call.logged, call.settled.value)

\* an error that a use-case built, logged and threw and that the wrapper then
\* received, classified again, logged and threw, at a later time
C21_Witness ==
    /\ call.fn = "withErrorHandling"
    /\ call.handler = "CreateUserUseCase.execute"
    /\ InstanceOfApplicationError(call.error)
    /\ Len(call.logged) = 2
    /\ call.completion.value.type = "VALIDATION_ERROR"

\* the remote data violates the API schema
C22_ViolatesApiSchema(data) ==
    \/ "users" \notin DOMAIN data
    \/ \E i \in DOMAIN data.users :
          \/ data.users[i].id.class # "number"
          \/ data.users[i].firstName.class # "string"
          \/ data.users[i].email.class # "string"
          \/ ~Includes(data.users[i].email.value, "@")

\* a failure inside getAll: a transport error, a response that is not OK, a
\* body that is not JSON, or data that violates the schema
C22_GetAllFails ==
    /\ call.fn = "UserApi"
    /\ call.method = "getAll"
    /\ \/ call.outcome.kind = "reject"
       \/ ~call.outcome.ok
       \/ "data" \notin DOMAIN call.outcome
       \/ C22_ViolatesApiSchema(call.outcome.data)

\* C22: every failure inside UserApi.getAll is thrown as a NETWORK error with
\* code "NETWORK_ERROR" and message "Error fetching users from API", data that
\* violates the schema included.
C22_GetAllFailureIsNetwork ==
    C22_GetAllFails =>
        /\ call.completion.kind = "throw"
        /\ InstanceOfApplicationError(call.completion.value)
        /\ call.completion.value.message = "Error fetching users from API"
        /\ call.completion.value.type = "NETWORK_ERROR"
        /\ call.completion.value.code = "NETWORK_ERROR"

\* the data of the repository's test: one user with an invalid email
C22_Witness ==
    /\ C22_GetAllFails
    /\ call.outcome.kind = "response"
    /\ call.outcome.ok
    /\ call.outcome.data = [users |-> <<ApiInvalidAlice>>]
    /\ call.completion.value.message = "Error fetching users from API"
    /\ Includes(call.completion.value.details.error, "INVALID_EMAIL_FORMAT")

\* the failure path of an execution: one logError call, given the
\* ApplicationError that execute then throws
C23_FailurePath(completion, logged) ==
    /\ InstanceOfApplicationError(completion.value)
    /\ Len(logged) = 1
    /\ logged[1].error = completion.value

\* C23: a failing execute of GetUsersUseCase or CreateUserUseCase attempts the
\* repository operation at most once, calls logError once, with the classified
\* error, and throws that error; a successful one never calls logError.
C23_LinearFailurePath ==
    /\ ExecuteDone =>
          /\ exec.getAllCalls = 1
          /\ IF exec.completion.kind = "throw"
             THEN C23_FailurePath(exec.completion, exec.logged)
             ELSE exec.logged = <<>>
    /\ call.fn = "CreateUserUseCase.execute" =>
          /\ Len(call.created) <= 1
          /\ IF call.completion.kind = "throw"
             THEN C23_FailurePath(call.completion, call.logged)
             ELSE call.logged = <<>>

CreateUserCalled == call.fn = "CreateUserUseCase.execute"

\* what the catch block of execute caught, if anything
C24_Caught ==
    IF call.created = <<>> THEN CreateUserInputSchemaParse(call.input)
    ELSE call.settled

C24_IsDuplicate(failure) ==
    /\ InstanceOfError(failure)
    /\ \/ Includes(MessageOf(failure), "duplicate")
       \/ Includes(MessageOf(failure), "already exists")

\* throw handleError(failure, "CreateUserUseCase.execute", traceId),
\* evaluated at the time `timestamp` of the execution
C24_ThrowHandled(failure, traceId, timestamp) ==
    LET handled == handleError(failure, Str("CreateUserUseCase.execute"),
                               Str(traceId)) IN
    IF handled.kind = "throw" THEN handled
    ELSE IF InstanceOfApplicationError(failure) THEN Throw(handled.value)
    ELSE Throw([handled.value EXCEPT !.timestamp = timestamp])

\* C24: when the failure execute catches is an Error whose message contains
\* "duplicate" or "already exists", an ApplicationError included, execute
\* throws CONFLICT / "CONFLICT" / "A user with this email already exists" with
\* details {email: input.email} and its own traceId; for every other failure
\* it throws what handleError(failure, "CreateUserUseCase.execute", traceId)
\* gives.
C24_DuplicateBeforeClassifier ==
    (CreateUserCalled /\ C24_Caught.kind = "throw") =>
        IF C24_IsDuplicate(C24_Caught.value)
        THEN /\ call.completion.kind = "throw"
             /\ InstanceOfApplicationError(call.completion.value)
             /\ call.completion.value.type = "CONFLICT_ERROR"
             /\ call.completion.value.code = "CONFLICT"
             /\ call.completion.value.message = "A user with this email already exists"
             /\ call.completion.value.details = [email |-> call.input.email]
             /\ call.completion.value.traceId = call.traceId
        ELSE /\ call.completion.kind = "throw"
             /\ call.completion =
                  C24_ThrowHandled(C24_Caught.value, call.traceId, call.at)

\* the repository's own DATABASE error about a duplicate comes out as CONFLICT
\* under the traceId of the execution
C24_Witness ==
    /\ CreateUserCalled
    /\ call.settled.kind = "throw"
    /\ InstanceOfApplicationError(call.settled.value)
    /\ call.settled.value.type = "DATABASE_ERROR"
    /\ call.completion.value.type = "CONFLICT_ERROR"
    /\ call.completion.value.traceId # call.settled.value.traceId

FormSubmitted == call.fn = "CreateUserForm"

\* validation of the form input, the use-case or the repository failed
C25_CreateFailed ==
    \/ call.formData.name.value = ""
    \/ call.useCase.kind = "throw"

\* C25: createUser never rejects: it resolves to {success: true} when the
\* use-case succeeds and to {success: false, error: <message>} for every
\* failure.
C25_ActionAlwaysSettlesWithResult ==
    FormSubmitted =>
        /\ call.completion.kind = "return"
        /\ IF C25_CreateFailed
           THEN /\ ~call.completion.value.success
                /\ "error" \in DOMAIN call.completion.value
           ELSE call.completion.value = [success |-> TRUE]

\* the input fails the schema: an empty name or a malformed email
C26_FailsSchema(input) ==
    \/ input.name.value = ""
    \/ ~Includes(input.email.value, "@")

\* create was called at most once, not at all for an input that fails the
\* schema, and with the name and email of the input
C26_CreatedAfterValidation(input, created) ==
    /\ Len(created) <= 1
    /\ C26_FailsSchema(input) => created = <<>>
    /\ \A i \in DOMAIN created :
          /\ created[i].name = input.name
          /\ created[i].email = input.email

\* C26: in CreateUserUseCase.execute, called directly or from the createUser
\* action, userRepository.create is never called for an input that fails the
\* schema, is called at most once, and is given the validated name and email.
C26_ValidationPrecedesPersistence ==
    /\ CreateUserCalled => C26_CreatedAfterValidation(call.input, call.created)
    /\ FormSubmitted => C26_CreatedAfterValidation(call.formData, call.created)

\* a malformed email: execute throws the validation error and the repository
\* was never called
C26_Witness ==
    /\ CreateUserCalled
    /\ call.input.email.value = "invalid-email"
    /\ call.created = <<>>
    /\ call.completion.kind = "throw"
    /\ call.completion.value.type = "VALIDATION_ERROR"

====
